---- MODULE Spec2Model ----
(***************************************************************************)
(* The migrate command of port-github-migrator (Go implementation):        *)
(* cmd/commands/migrate.go, internal/migrator (Migrator.Migrate and        *)
(* Migrator.migrateBlueprint), internal/port (Client) and main.            *)
(*                                                                         *)
(* The catalog service is modelled as the per-group list of entities owned *)
(* by the old installation; every request of the client is one step whose  *)
(* outcome the service chooses.  `log` is the trace of the client calls    *)
(* made, `out` the trace of the messages printed.                          *)
(***************************************************************************)
EXTENDS Integers, Sequences, FiniteSets, TLC

(***************************************************************************)
(* Bounds of the model and constants of the program.                       *)
(***************************************************************************)
\* migrateBlueprint: batchSize := 100
BatchSize == 100
\* largest number of old-owned entities a group starts with
MaxEntities == 250
\* number of times the catalog may change under the run
MaxChanges == 1

Groups == {"g1", "g2"}
OldInstallationID == "old"

\* entity counts the groups may start with: none, one full batch, one more
\* than a batch, several batches
EntityCounts ==
    [g \in Groups |-> IF g = "g1" THEN {0, BatchSize, MaxEntities}
                                  ELSE {0, BatchSize + 1}]

\* outcome of one client call: success, failure inside getToken, or a
\* transport error / non-200 status / undecodable body of the request itself
Outcomes == {"ok", "autherr", "httperr"}

(***************************************************************************)
(* Helpers over sequences.                                                 *)
(***************************************************************************)
ToSet(s) == {s[k] : k \in 1..Len(s)}

Range(lo, hi) == [k \in 1..(hi - lo + 1) |-> lo + k - 1]

Min(a, b) == IF a < b THEN a ELSE b

RECURSIVE SumOver(_, _)
SumOver(f, S) ==
    IF S = {} THEN 0
    ELSE LET x == CHOOSE y \in S : TRUE IN f[x] + SumOver(f, S \ {x})

CeilDiv(n, d) == (n + d - 1) \div d

\* the operator never submits a line
NoLineSubmitted == {}

(***************************************************************************)
(* Operator input at the confirmation prompt: what stands on standard      *)
(* input, as a sequence of characters.                                     *)
(***************************************************************************)
StdinLines ==
    { <<"y", "e", "s", "\n">>,
      <<"y", "e", "s">>,
      <<"y", "e", "s", "\r", "\n">>,
      <<" ", "y", "e", "s", "\n">>,
      <<"y", "e", "s", " ", "\n">>,
      <<"\t", "y", "e", "s", "\t", "\n">>,
      <<"y", "e", "s", "\n", "n", "o", "\n">>,
      <<"y", "\n">>,
      <<"Y", "E", "S", "\n">>,
      <<"Y", "e", "s", "\n">>,
      <<"\n">>,
      <<>>,
      <<"n", "o", "\n">>,
      <<"y", "e", " ", "s", "\n">>,
      <<"y", "e", "s", "s", "\n">>,
      <<"n", "\n", "y", "e", "s", "\n">> }

\* bufio.Reader.ReadString('\n'): the data up to and including the first
\* delimiter, or everything there is when the input ends before one
RECURSIVE ReadString(_)
ReadString(s) ==
    IF s = <<>> THEN <<>>
    ELSE IF Head(s) = "\n" THEN <<"\n">>
    ELSE <<Head(s)>> \o ReadString(Tail(s))

WhiteSpace == {" ", "\t", "\n", "\r", "\f"}

RECURSIVE TrimLeft(_)
TrimLeft(s) ==
    IF s # <<>> /\ Head(s) \in WhiteSpace THEN TrimLeft(Tail(s)) ELSE s

RECURSIVE TrimRight(_)
TrimRight(s) ==
    IF s # <<>> /\ s[Len(s)] \in WhiteSpace
    THEN TrimRight(SubSeq(s, 1, Len(s) - 1))
    ELSE s

\* strings.TrimSpace
TrimSpace(s) == TrimRight(TrimLeft(s))

Yes == <<"y", "e", "s">>

\* the comparison inverted
AcceptedInverted(in) == in # Yes

\* the comparison made with strings.EqualFold
AcceptedIgnoringCase(in) ==
    /\ Len(in) = 3
    /\ in[1] \in {"y", "Y"} /\ in[2] \in {"e", "E"} /\ in[3] \in {"s", "S"}

\* Migrate: input != "yes" cancels
Accepted(in) == in = Yes

(***************************************************************************)
(* The catalog service.                                                    *)
(***************************************************************************)
\* GET /v1/data-sources answers the service may give: no data source, two
\* of the installation that share a blueprint, one of another installation
DataSourceResponses ==
    { <<>>,
      << [installationId |-> "old", blueprints |-> <<"g1">>],
         [installationId |-> "old", blueprints |-> <<"g1", "g2">>] >>,
      << [installationId |-> "other", blueprints |-> <<"g1">>],
         [installationId |-> "old", blueprints |-> <<"g2">>] >> }

\* GetBlueprintsByDataSource: the identifiers of the data sources of the
\* installation, collected as the keys of a map (each identifier once)
BlueprintSet(ds, installationID) ==
    UNION { ToSet(ds[k].blueprints) :
              k \in {j \in 1..Len(ds) : ds[j].installationId = installationID} }

\* all orders in which a set may be listed (Go map iteration order)
Orderings(S) ==
    {s \in [1..Cardinality(S) -> S] : \A a, b \in 1..Cardinality(S) : a # b => s[a] # s[b]}

\* the identifiers appended to a slice as they come, without the map
RECURSIVE ListedBlueprints(_, _)
ListedBlueprints(ds, installationID) ==
    IF ds = <<>> THEN <<>>
    ELSE (IF Head(ds).installationId = installationID THEN Head(ds).blueprints ELSE <<>>)
         \o ListedBlueprints(Tail(ds), installationID)

DiscoveredListsWithRepeats(ds, installationID) == {ListedBlueprints(ds, installationID)}

\* GetBlueprintsByDataSource: the slices it may return (map keys, any order)
DiscoveredLists(ds, installationID) == Orderings(BlueprintSet(ds, installationID))

VARIABLES
    args,            \* parsed command line: blueprint, all, dryRun, configOk
    dataSources,     \* service: the data-sources listing
    catalog,         \* service: per group, the old-owned entity identifiers
    nextId,          \* service: next fresh entity identifier
    changes,         \* number of catalog changes so far
    pc,              \* position of the command
    listing,         \* command: blueprints of the --all listing
    blueprints,      \* Migrate: blueprints
    idx,             \* index of the running for-range loop
    blueprintCounts, \* Migrate: blueprintCounts
    totalEntities,   \* Migrate: totalEntities
    stats,           \* Migrate: stats
    input,           \* Migrate: input
    identifiers,     \* migrateBlueprint: identifiers
    i,               \* migrateBlueprint: i of the batch loop
    log,             \* client calls made so far, in order, with their outcome
    out,             \* messages printed so far, in order
    err,             \* error returned by the command's RunE ("nil" if none)
    exitCode         \* process exit status, -1 while running

\* internal/port: the Client on its own, its methods called one after another
VARIABLES
    token,           \* Client.token
    tokenExpires,    \* Client.tokenExpires, in seconds
    now,             \* time.Now(), in seconds
    cpc,             \* position of the client: "idle", or "paging" in the search loop
    bearer,          \* the method's local token, sent as "Bearer %s"
    allEntities,     \* searchEntitiesByBlueprint: allEntities
    next,            \* searchEntitiesByBlueprint: next
    http,            \* requests sent by the current method, in order
    ret,             \* what the last method returned
    tokenCall,       \* the getToken call of the current method, if it made one
    stored,          \* service: number of entities the searched query matches
    eager,           \* service: a cursor comes with every full page
    lifetime         \* service: seconds for which the tokens it issues are valid

\* the requests of a run on the wire
VARIABLES
    inflight,        \* requests sent and not yet answered
    wpc,             \* where the caller waits: "idle", "auth" or "request"
    wcall,           \* the client method the caller is in
    wsent            \* number of requests sent so far

\* internal/diff: the Service of the get-diff command
VARIABLES
    dpc,             \* position of the get-diff command
    sourceEntities,  \* CompareBlueprints: sourceEntities
    targetEntities,  \* CompareBlueprints: targetEntities
    result,          \* CompareBlueprints: result
    cmpErr,          \* error returned by CompareBlueprints ("nil" if none)
    printed          \* PrintDetailedDiffs: the entities shown, with their lines

vars == <<args, dataSources, catalog, nextId, changes, pc, listing, blueprints,
          idx, blueprintCounts, totalEntities, stats, input, identifiers, i,
          log, out, err, exitCode,
          token, tokenExpires, now, cpc, bearer, allEntities, next, http, ret,
          tokenCall, stored, eager, lifetime,
          inflight, wpc, wcall, wsent,
          dpc, sourceEntities, targetEntities, result, cmpErr, printed>>

wireVars == <<inflight, wpc, wcall, wsent>>
diffVars == <<dpc, sourceEntities, targetEntities, result, cmpErr, printed>>

\* no method is being called
NoCall == [method |-> "none", group |-> ""]

\* nothing was ever sent
WireAtRest ==
    /\ inflight = {}
    /\ wpc = "idle"
    /\ wcall = NoCall
    /\ wsent = 0

\* a result whose summary does not start from zero
StaleDiffResult ==
    [Summary |-> [Identical |-> 0, NotMigrated |-> 0, Changed |-> 1, Orphaned |-> 0],
     Changes |-> <<>>]

\* &models.DiffResult{Changes: []models.EntityChange{}}
EmptyDiffResult ==
    [Summary |-> [Identical |-> 0, NotMigrated |-> 0, Changed |-> 0, Orphaned |-> 0],
     Changes |-> <<>>]

\* the get-diff command has not run
DiffAtRest ==
    /\ dpc = "start"
    /\ sourceEntities = <<>>
    /\ targetEntities = <<>>
    /\ result = EmptyDiffResult
    /\ cmpErr = "nil"
    /\ printed = <<>>

clientVars == <<token, tokenExpires, now, cpc, bearer, allEntities, next, http,
                ret, tokenCall, stored, eager, lifetime>>
\* what the migrate command leaves alone
otherVars == <<clientVars, wireVars, diffVars>>
runVars == <<args, dataSources, catalog, nextId, changes, pc, listing, blueprints,
             idx, blueprintCounts, totalEntities, stats, input, identifiers, i,
             log, out, err, exitCode>>

\* var next string
NoCursor == <<>>
\* no method has returned yet, or one is running
NoReturn ==
    [method |-> "none", err |-> "nil", entities |-> <<>>, ids |-> <<>>,
     datasource |-> ""]
\* the current method has not called getToken
NoTokenCall == [called |-> FALSE]

\* the client as NewClient leaves it, and never used
ClientAtRest ==
    /\ token = ""
    /\ tokenExpires = 0
    /\ now = 0
    /\ cpc = "idle"
    /\ bearer = ""
    /\ allEntities = <<>>
    /\ next = NoCursor
    /\ http = <<>>
    /\ ret = NoReturn
    /\ tokenCall = NoTokenCall
    /\ stored = 0
    /\ eager = FALSE
    /\ lifetime = 0

service == <<dataSources, catalog, nextId, changes>>
locals == <<listing, blueprints, idx, blueprintCounts, totalEntities, stats,
            input, identifiers, i>>

\* models.MigrationStats{}
EmptyStats ==
    [TotalBlueprints |-> 0, TotalEntities |-> 0, TotalBatches |-> 0,
     SuccessfulBatches |-> 0, FailedBatches |-> 0, Errors |-> <<>>]

\* one call of the client: which, for which blueprint, from where, with what
\* outcome, and the entity identifiers it carried (patch) or returned (search)
Call(call, bp, phase, res, ids) ==
    [call |-> call, bp |-> bp, phase |-> phase, res |-> res, ids |-> ids]

Init ==
    /\ args \in [blueprint : {"", "g1"}, all : BOOLEAN, dryRun : BOOLEAN,
                 configOk : BOOLEAN]
    /\ dataSources \in DataSourceResponses
    /\ catalog \in {[g \in Groups |-> Range(1, IF g = "g1" THEN a ELSE b)] :
                       a \in EntityCounts["g1"], b \in EntityCounts["g2"]}
    /\ nextId = MaxEntities + 1
    /\ changes = 0
    /\ pc = "start"
    /\ listing = <<>>
    /\ blueprints = <<>>
    /\ idx = 0
    /\ blueprintCounts = [g \in {} |-> 0]
    /\ totalEntities = 0
    /\ stats = EmptyStats
    /\ input = <<>>
    /\ identifiers = <<>>
    /\ i = 0
    /\ log = <<>>
    /\ out = <<>>
    /\ err = "nil"
    /\ exitCode = -1
    /\ ClientAtRest
    /\ WireAtRest
    /\ DiffAtRest

\* RunE returns e
Return(e) ==
    /\ pc' = "returned"
    /\ err' = e

\* a client call with outcome r; with "autherr" the call ended inside
\* getToken, before its own request was sent
Issue(call, bp, phase, r, ids) ==
    log' = Append(log, Call(call, bp, phase, r, ids))

\* fmt.Print, fmt.Println, fmt.Printf
Say(msgs) == out' = out \o msgs

\* Client.searchEntitiesByBlueprint with the old-installation query: all
\* entities of the group that the old installation owns, in service order
SearchOldEntitiesByBlueprint(bp) == catalog[bp]

(***************************************************************************)
(* cmd/commands/migrate.go: RunE                                           *)
(***************************************************************************)
\* argument and option validation
Validate ==
    /\ pc = "start"
    /\ IF args.blueprint = "" /\ ~args.all
         THEN Return("either provide a blueprint name or use --all flag")
       ELSE IF args.blueprint # "" /\ args.all
         THEN Return("cannot use both blueprint argument and --all flag")
       ELSE IF ~args.configOk
         THEN Return("missing required options")
       ELSE pc' = "version" /\ err' = err
    /\ UNCHANGED <<otherVars, args, service, locals, log, out, exitCode>>

\* client.GetIntegrationVersion(newInstallID)
GetIntegrationVersion ==
    /\ pc = "version"
    /\ \E r \in Outcomes :
         /\ Issue("version", "", "cmd", r, <<>>)
         /\ IF r = "ok"
              THEN pc' = (IF args.all THEN "listing" ELSE "discover") /\ err' = err
              ELSE Return("failed to get integration version")
    /\ UNCHANGED <<otherVars, args, service, locals, out, exitCode>>

\* --all: the listing header, then client.GetBlueprintsByDataSource(oldInstallID)
ListBlueprints ==
    /\ pc = "listing"
    /\ Say(<<"Blueprints to migrate:">>)
    /\ \E r \in Outcomes :
         /\ Issue("discover", "", "cmd", r, <<>>)
         /\ IF r # "ok" \/ BlueprintSet(dataSources, OldInstallationID) = {}
              THEN /\ Return("failed to get blueprints")
                   /\ UNCHANGED <<listing, idx>>
              ELSE /\ listing' \in DiscoveredLists(dataSources, OldInstallationID)
                   /\ idx' = 1
                   /\ pc' = "listing_search"
                   /\ err' = err
    /\ UNCHANGED <<otherVars, args, service, blueprints, blueprintCounts, totalEntities,
                   stats, input, identifiers, i, exitCode>>

\* --all: one iteration of the listing loop; a failed search prints "?" and
\* the loop goes on, an empty blueprint prints nothing
ListEntities ==
    /\ pc = "listing_search"
    /\ idx <= Len(listing)
    /\ \E r \in Outcomes :
         LET entities == IF r = "ok" THEN SearchOldEntitiesByBlueprint(listing[idx])
                         ELSE <<>> IN
         /\ Issue("search", listing[idx], "cmd", r, entities)
         /\ Say(IF r # "ok" THEN <<"?">>
                ELSE IF Len(entities) = 0 THEN <<>> ELSE <<"row">>)
    /\ idx' = idx + 1
    /\ pc' = IF idx = Len(listing) THEN "discover" ELSE "listing_search"
    /\ UNCHANGED <<otherVars, args, service, listing, blueprints, blueprintCounts,
                   totalEntities, stats, input, identifiers, i, err, exitCode>>

(***************************************************************************)
(* internal/migrator: Migrator.Migrate                                     *)
(***************************************************************************)
\* "Get blueprints to migrate": the blueprint given, or those discovered;
\* then the warning
GetBlueprints ==
    /\ pc = "discover"
    /\ IF ~args.all /\ args.blueprint # ""
         THEN /\ blueprints' = <<args.blueprint>>
              /\ stats' = [EmptyStats EXCEPT !.TotalBlueprints = 1]
              /\ pc' = "count"
              /\ Say(<<"WARNING: This action cannot be undone!">>)
              /\ UNCHANGED <<log, err>>
         ELSE \E r \in Outcomes :
                /\ Issue("discover", "", "discover", r, <<>>)
                /\ IF r # "ok" \/ BlueprintSet(dataSources, OldInstallationID) = {}
                     THEN /\ Return("failed to get blueprints")
                          /\ blueprints' = <<>>
                          /\ stats' = EmptyStats
                          /\ out' = out
                     ELSE /\ blueprints' \in DiscoveredLists(dataSources, OldInstallationID)
                          /\ stats' = [EmptyStats EXCEPT !.TotalBlueprints = Len(blueprints')]
                          /\ pc' = "count"
                          /\ err' = err
                          /\ Say(<<"WARNING: This action cannot be undone!">>)
    /\ idx' = 1
    /\ totalEntities' = 0
    /\ blueprintCounts' = [g \in {} |-> 0]
    /\ UNCHANGED <<otherVars, args, service, listing, input, identifiers, i, exitCode>>

\* the prompt reached whatever the total is
AfterCountWithoutZeroCheck(total) ==
    /\ Say(<<"Total entities affected">>
           \o (IF args.dryRun THEN <<"DRY RUN MODE">> ELSE <<>>)
           \o <<"Type 'yes' to proceed: ">>)
    /\ pc' = "confirm"
    /\ err' = err

\* after the Count loop: the total; nothing to migrate returns (stats, nil);
\* otherwise the dry-run notice, if any, and the prompt
AfterCount(total) ==
    IF total = 0
    THEN /\ Say(<<"Total entities affected", "No entities found to migrate. Exiting.">>)
         /\ Return("nil")
    ELSE /\ Say(<<"Total entities affected">>
                \o (IF args.dryRun THEN <<"DRY RUN MODE">> ELSE <<>>)
                \o <<"Type 'yes' to proceed: ">>)
         /\ pc' = "confirm"
         /\ err' = err

\* "Count entities for each blueprint": one iteration; a failed search
\* returns the error from Migrate
CountEntities ==
    /\ pc = "count"
    /\ idx <= Len(blueprints)
    /\ LET bp == blueprints[idx] IN
       \E r \in Outcomes :
         IF r # "ok"
         THEN /\ Issue("search", bp, "count", r, <<>>)
              /\ Return("failed to search entities for blueprint")
              /\ UNCHANGED <<blueprintCounts, totalEntities, idx, out>>
         ELSE LET entities == SearchOldEntitiesByBlueprint(bp)
                  count == Len(entities) IN
              /\ Issue("search", bp, "count", r, entities)
              /\ blueprintCounts' = (bp :> count) @@ blueprintCounts
              /\ totalEntities' = totalEntities + count
              /\ IF idx < Len(blueprints)
                   THEN idx' = idx + 1 /\ UNCHANGED <<pc, err, out>>
                   ELSE idx' = idx /\ AfterCount(totalEntities')
    /\ UNCHANGED <<otherVars, args, service, listing, blueprints, stats, input,
                   identifiers, i, exitCode>>

\* "Get user confirmation": input, _ := reader.ReadString('\n')
ReadInput ==
    /\ pc = "confirm"
    /\ \E line \in StdinLines : input' = ReadString(line)
    /\ pc' = "confirm_read"
    /\ UNCHANGED <<otherVars, args, service, listing, blueprints, idx, blueprintCounts,
                   totalEntities, stats, identifiers, i, log, out, err, exitCode>>

\* input = strings.TrimSpace(input); anything but "yes" cancels
Confirm ==
    /\ pc = "confirm_read"
    /\ input' = TrimSpace(input)
    /\ IF ~Accepted(input')
         THEN Say(<<"Migration cancelled.">>) /\ Return("nil") /\ idx' = idx
         ELSE pc' = "migrate" /\ idx' = 1 /\ UNCHANGED <<out, err>>
    /\ UNCHANGED <<otherVars, args, service, listing, blueprints, blueprintCounts,
                   totalEntities, stats, identifiers, i, log, exitCode>>

\* the for-range loop of "Migrate each blueprint" moves on, or ends
NextBlueprint ==
    /\ IF idx < Len(blueprints)
         THEN idx' = idx + 1 /\ pc' = "migrate"
         ELSE idx' = idx /\ pc' = "report"
    /\ err' = err

\* migrateBlueprint returned nil, or the run is a dry run
BlueprintSucceeded ==
    /\ stats' = [stats EXCEPT !.SuccessfulBatches = @ + 1]
    /\ NextBlueprint

\* the failure counted but not appended to stats.Errors
BlueprintFailedUnrecorded(bp, cause) ==
    /\ stats' = [stats EXCEPT !.FailedBatches = @ + 1]
    /\ NextBlueprint

\* the error returned from Migrate instead of `continue`
BlueprintFailedAborts(bp, cause) ==
    /\ stats' = [stats EXCEPT !.FailedBatches = @ + 1,
                              !.Errors = Append(@, [blueprint |-> bp, cause |-> cause])]
    /\ idx' = idx
    /\ Return("failed to migrate blueprint")

\* migrateBlueprint returned an error: counted, recorded, and the loop continues
BlueprintFailed(bp, cause) ==
    /\ stats' = [stats EXCEPT !.FailedBatches = @ + 1,
                              !.Errors = Append(@, [blueprint |-> bp, cause |-> cause])]
    /\ NextBlueprint

\* the dry-run test left out
ShouldPatchAlways(dryRun) == TRUE

\* if !dryRun { migrateBlueprint(...) }
ShouldPatch(dryRun) == ~dryRun

\* one iteration of the loop in a dry run
DryRunBlueprint ==
    /\ pc = "migrate"
    /\ ~ShouldPatch(args.dryRun)
    /\ Say(<<"Migrating">>)
    /\ BlueprintSucceeded
    /\ UNCHANGED <<otherVars, args, service, listing, blueprints, blueprintCounts,
                   totalEntities, input, identifiers, i, log, exitCode>>

(***************************************************************************)
(* internal/migrator: Migrator.migrateBlueprint                            *)
(***************************************************************************)
\* "Get old entities" and "Extract identifiers"
MigrateBlueprintSearch ==
    /\ pc = "migrate"
    /\ ShouldPatch(args.dryRun)
    /\ LET bp == blueprints[idx] IN
       \E r \in Outcomes :
         IF r # "ok"
         THEN /\ Issue("search", bp, "migrate", r, <<>>)
              /\ Say(<<"Migrating">>)
              /\ BlueprintFailed(bp, "failed to search entities")
              /\ UNCHANGED <<identifiers, i>>
         ELSE LET entities == SearchOldEntitiesByBlueprint(bp) IN
              /\ Issue("search", bp, "migrate", r, entities)
              /\ IF Len(entities) = 0
                   THEN /\ Say(<<"Migrating", "No entities to migrate">>)
                        /\ BlueprintSucceeded
                        /\ UNCHANGED <<identifiers, i>>
                   ELSE /\ Say(<<"Migrating">>)
                        /\ identifiers' = entities
                        /\ i' = 0
                        /\ pc' = "patch"
                        /\ UNCHANGED <<stats, idx, err>>
    /\ UNCHANGED <<otherVars, args, service, listing, blueprints, blueprintCounts,
                   totalEntities, input, exitCode>>

\* end := i + batchSize, capped at len(identifiers)
BatchEnd(from, n) == Min(from + BatchSize, n)

\* the loop steps over every other batch
NextBatchSkipping(from) == from + 2 * BatchSize

\* i += batchSize
NextBatch(from) == from + BatchSize

\* the service applies a bulk patch: the entities leave the old installation
ApplyPatch(bp, batch) ==
    [catalog EXCEPT ![bp] = SelectSeq(@, LAMBDA id : id \notin ToSet(batch))]

\* "Patch in batches of 100": one iteration, PatchEntitiesDatasourceBulk on
\* identifiers[i:end]; a failure returns from migrateBlueprint
PatchBatch ==
    /\ pc = "patch"
    /\ i < Len(identifiers)
    /\ LET bp == blueprints[idx]
           end == BatchEnd(i, Len(identifiers))
           batch == SubSeq(identifiers, i + 1, end) IN
       \E r \in Outcomes :
         /\ Issue("patch", bp, "migrate", r, batch)
         /\ IF r # "ok"
              THEN /\ BlueprintFailed(bp, "failed to patch batch")
                   /\ UNCHANGED <<catalog, i, out>>
              ELSE /\ catalog' = ApplyPatch(bp, batch)
                   /\ Say(<<"Successfully patched">>)
                   /\ i' = NextBatch(i)
                   /\ IF i' < Len(identifiers)
                        THEN UNCHANGED <<pc, stats, idx, err>>
                        ELSE BlueprintSucceeded
    /\ UNCHANGED <<otherVars, args, dataSources, nextId, changes, listing, blueprints,
                   blueprintCounts, totalEntities, input, identifiers, exitCode>>

\* "Migration complete!": Migrate returns (stats, nil)
Report ==
    /\ pc = "report"
    /\ Say(<<"Migration complete!">>)
    /\ Return("nil")
    /\ UNCHANGED <<otherVars, args, service, locals, log, exitCode>>

(***************************************************************************)
(* main                                                                    *)
(***************************************************************************)
\* rootCmd.Execute() returned: os.Exit(1) on an error, else the end of main
Exit ==
    /\ pc = "returned"
    /\ pc' = "exited"
    /\ IF err # "nil"
         THEN Say(<<"Error:">>) /\ exitCode' = 1
         ELSE out' = out /\ exitCode' = 0
    /\ UNCHANGED <<otherVars, args, service, locals, log, err>>

(***************************************************************************)
(* The catalog changes under the run, while the prompt waits for the       *)
(* operator: an entity of a group appears under the old installation, or   *)
(* one leaves it.                                                          *)
(***************************************************************************)
EntityAdded ==
    /\ pc = "confirm"
    /\ changes < MaxChanges
    /\ \E g \in Groups : catalog' = [catalog EXCEPT ![g] = Append(@, nextId)]
    /\ nextId' = nextId + 1
    /\ changes' = changes + 1
    /\ UNCHANGED <<otherVars, args, dataSources, pc, locals, log, out, err, exitCode>>

EntityRemoved ==
    /\ pc = "confirm"
    /\ changes < MaxChanges
    /\ \E g \in Groups :
         /\ catalog[g] # <<>>
         /\ catalog' = [catalog EXCEPT ![g] = Tail(@)]
    /\ changes' = changes + 1
    /\ UNCHANGED <<otherVars, args, dataSources, nextId, pc, locals, log, out, err, exitCode>>

Next ==
    \/ Validate
    \/ GetIntegrationVersion
    \/ ListBlueprints
    \/ ListEntities
    \/ GetBlueprints
    \/ CountEntities
    \/ ReadInput
    \/ Confirm
    \/ DryRunBlueprint
    \/ MigrateBlueprintSearch
    \/ PatchBatch
    \/ Report
    \/ Exit
    \/ EntityAdded
    \/ EntityRemoved

Spec == Init /\ [][Next]_vars

\* a step of the command itself: main, RunE, Migrate and migrateBlueprint; the
\* catalog changes are the environment's
CommandStep ==
    \/ Validate
    \/ GetIntegrationVersion
    \/ ListBlueprints
    \/ ListEntities
    \/ GetBlueprints
    \/ CountEntities
    \/ ReadInput
    \/ Confirm
    \/ DryRunBlueprint
    \/ MigrateBlueprintSearch
    \/ PatchBatch
    \/ Report
    \/ Exit

\* the command running to its end over a catalog that stays as it is: the
\* process keeps executing, every call it makes is answered and the operator
\* submits a line at the prompt
SpecLive == Init /\ [][CommandStep]_vars /\ WF_vars(CommandStep)

(***************************************************************************)
(* internal/port: the Client. Its methods are called one after another on  *)
(* one Client while the clock advances; the service answers each request.  *)
(***************************************************************************)
\* seconds in time.Minute
Minute == 60
\* threeMinutes := 3 * time.Minute
ThreeMinutes == 3 * Minute
\* limit := 200
PageLimit == 200
\* http.StatusOK
StatusOK == 200
\* the clock advances at most MaxTicks times, a minute each
MaxTicks == 3
MaxClock == MaxTicks * Minute
\* the largest number of entities a query matches
MaxStored == 401

StoredCounts == {0, 1, PageLimit, PageLimit + 1, MaxStored}
AccessTokens == {"t1", "t2"}
ExpiresIns == {lifetime}

\* JSON objects the auth endpoint may send: each member absent (<<>>) or
\* present with its value (<<v>>)
AuthBodies ==
    [accessToken : {<<>>} \cup {<<t>> : t \in AccessTokens},
     expiresIn : {<<>>} \cup {<<e>> : e \in ExpiresIns}]

\* no request was sent to the auth endpoint
NoReply ==
    [transport |-> FALSE, status |-> 0, decodable |-> FALSE,
     body |-> [accessToken |-> <<>>, expiresIn |-> <<>>]]

\* what the auth endpoint may answer: no response at all (transport error),
\* a status, and a body that json can or cannot decode into AuthResponse
AuthReplies ==
    {[transport |-> TRUE, status |-> 0, decodable |-> FALSE,
      body |-> [accessToken |-> <<>>, expiresIn |-> <<>>]]}
    \cup {[transport |-> FALSE, status |-> st, decodable |-> FALSE,
           body |-> [accessToken |-> <<>>, expiresIn |-> <<>>]] :
            st \in {StatusOK, 401, 500}}
    \cup {[transport |-> FALSE, status |-> StatusOK, decodable |-> TRUE,
           body |-> b] : b \in AuthBodies}

\* json.NewDecoder(resp.Body).Decode(&authResp): an absent member leaves the
\* field at its zero value
DecodeAuthResponse(body) ==
    [AccessToken |-> IF body.accessToken = <<>> THEN "" ELSE body.accessToken[1],
     ExpiresIn |-> IF body.expiresIn = <<>> THEN 0 ELSE body.expiresIn[1]]

\* c.token != "" && now.Add(threeMinutes).Before(c.tokenExpires)
TokenCached(tok, expires, t) ==
    tok # "" /\ t + ThreeMinutes < expires

\* the answers a getToken call made now can meet: none while the cached token
\* is returned
PossibleReplies ==
    IF TokenCached(token, tokenExpires, now) THEN {NoReply} ELSE AuthReplies

\* a failed exchange that also empties the cache
ExchangeFailedClearingCache(base, e) ==
    base @@ [exchanged |-> TRUE, tok |-> "", err |-> e,
             token |-> "", tokenExpires |-> 0]

\* return "", fmt.Errorf(...): the cache is not assigned
ExchangeFailed(base, e) ==
    base @@ [exchanged |-> TRUE, tok |-> "", err |-> e,
             token |-> token, tokenExpires |-> tokenExpires]

\* what getToken returns and leaves in the cache when the auth endpoint
\* would answer with reply
getToken(reply) ==
    LET base == [called |-> TRUE, cached |-> token,
                 remaining |-> tokenExpires - now,
                 reply |-> reply] IN
    IF TokenCached(token, tokenExpires, now)
    THEN base @@ [exchanged |-> FALSE, tok |-> token, err |-> "nil",
                  token |-> token, tokenExpires |-> tokenExpires]
    ELSE IF reply.transport
    THEN ExchangeFailed(base, "authentication request failed")
    ELSE IF reply.status # StatusOK
    THEN ExchangeFailed(base, "authentication failed")
    ELSE IF ~reply.decodable
    THEN ExchangeFailed(base, "failed to decode auth response")
    ELSE LET authResp == DecodeAuthResponse(reply.body) IN
         base @@ [exchanged |-> TRUE, tok |-> authResp.AccessToken, err |-> "nil",
                  token |-> authResp.AccessToken,
                  tokenExpires |-> now + authResp.ExpiresIn]

\* one request as the service sees it
Request(kind, tok, from, ids, ds, res) ==
    [kind |-> kind, at |-> now, bearer |-> tok, from |-> from, ids |-> ids,
     datasource |-> ds,
     res |-> res]

\* the auth request of a getToken call, if it sent one
AuthRequests(g) ==
    IF g.exchanged
    THEN <<[kind |-> "auth", at |-> now, bearer |-> "", from |-> NoCursor,
            ids |-> <<>>, datasource |-> "",
            res |-> IF g.err = "nil" THEN "ok" ELSE g.err]>>
    ELSE <<>>

\* token, err := c.getToken(): the cache, the method's token, the call's record
CallGetToken(g) ==
    /\ token' = g.token
    /\ tokenExpires' = g.tokenExpires
    /\ tokenCall' = g
    /\ bearer' = g.tok

\* what a method returns
Returns(method, e, entities, ids, ds) ==
    ret' = [method |-> method, err |-> e, entities |-> entities, ids |-> ids,
            datasource |-> ds]

\* the service's answer to a search request with cursor from: the next
\* PageLimit matching entities, and a cursor while entities remain (an eager
\* service sends one with every full page)
ServePage(from) ==
    LET start == IF from = NoCursor THEN 0 ELSE from[1]
        end == Min(start + PageLimit, stored) IN
    [Entities |-> Range(start + 1, end),
     Next |-> IF end < stored \/ (eager /\ end - start = PageLimit)
                THEN <<end>> ELSE NoCursor]

\* how a page request can end
PageOutcomes == {"ok", "request failed", "search failed", "failed to decode response"}
\* how a patch request can end
PatchOutcomes == {"ok", "request failed", "patch failed"}
\* identifier lists a caller may pass to PatchEntitiesDatasourceBulk
IdentifierLists == {<<>>, <<1, 2>>}

\* the clock advances, also while a method waits for a response
Tick ==
    /\ now < MaxClock
    /\ now' = now + Minute
    /\ UNCHANGED <<wireVars, diffVars, runVars, token, tokenExpires, cpc, bearer, allEntities, next,
                   http, ret, tokenCall, stored, eager, lifetime>>

\* searchEntitiesByBlueprint up to its loop: token, err := c.getToken()
SearchEntitiesByBlueprint ==
    /\ cpc = "idle"
    /\ \E reply \in PossibleReplies :
         LET g == getToken(reply) IN
         /\ CallGetToken(g)
         /\ http' = AuthRequests(g)
         /\ IF g.err # "nil"
              THEN /\ Returns("search", g.err, <<>>, <<>>, "")
                   /\ cpc' = "idle"
              ELSE /\ cpc' = "paging"
                   /\ ret' = NoReturn
    /\ allEntities' = <<>>
    /\ next' = NoCursor
    /\ UNCHANGED <<wireVars, diffVars, runVars, now, stored, eager, lifetime>>

\* the entities of a response are put in front of those fetched before
PrependEntities(all, page) == page \o all

\* only the entities of the last response are kept
KeepLatest(all, page) == page

\* allEntities = append(allEntities, searchResp.Entities...)
AppendEntities(all, page) == all \o page

\* the pages fetched before the failing one are returned with the error
SearchFailedKeepingPages(e, fetched) == Returns("search", e, fetched, <<>>, "")

\* return nil, err from inside the loop
SearchFailed(e, fetched) == Returns("search", e, <<>>, <<>>, "")

\* one iteration of the search loop: the request, then the error return, the
\* break or the next cursor
SearchPage ==
    /\ cpc = "paging"
    /\ \E res \in PageOutcomes :
         /\ http' = Append(http, Request("search", bearer, next, <<>>, "", res))
         /\ IF res # "ok"
              THEN /\ SearchFailed(res, allEntities)
                   /\ cpc' = "idle"
                   /\ UNCHANGED <<allEntities, next>>
              ELSE LET searchResp == ServePage(next) IN
                   /\ allEntities' = AppendEntities(allEntities, searchResp.Entities)
                   /\ IF searchResp.Next = NoCursor
                        THEN /\ Returns("search", "nil", allEntities', <<>>, "")
                             /\ cpc' = "idle"
                             /\ next' = next
                        ELSE /\ next' = searchResp.Next
                             /\ UNCHANGED <<cpc, ret>>
    /\ UNCHANGED <<wireVars, diffVars, runVars, token, tokenExpires, now, bearer, tokenCall, stored,
                   eager, lifetime>>

\* every list is sent
NeedsRequestAlways(entitiesIdentifiers) == TRUE

\* if len(entitiesIdentifiers) == 0 { return nil } is not taken
NeedsRequest(entitiesIdentifiers) == Len(entitiesIdentifiers) # 0

\* the datasource tags a caller may pass as newDatasource
Datasources == {"port/github-ocean/new/exporter", "other"}

\* a failed PATCH reported as success
PatchErrorDropped(res) == "nil"

\* what the method returns for the outcome of its PATCH request
PatchError(res) == IF res = "ok" THEN "nil" ELSE res

\* PatchEntitiesDatasourceBulk(blueprintID, entitiesIdentifiers, newDatasource)
PatchEntitiesDatasourceBulk ==
    /\ cpc = "idle"
    /\ \E entitiesIdentifiers \in IdentifierLists, newDatasource \in Datasources :
         IF ~NeedsRequest(entitiesIdentifiers)
         THEN /\ Returns("patch", "nil", <<>>, entitiesIdentifiers, newDatasource)
              /\ tokenCall' = NoTokenCall
              /\ http' = <<>>
              /\ UNCHANGED <<token, tokenExpires, bearer>>
         ELSE \E reply \in PossibleReplies, res \in PatchOutcomes :
                LET g == getToken(reply) IN
                /\ CallGetToken(g)
                /\ IF g.err # "nil"
                     THEN /\ http' = AuthRequests(g)
                          /\ Returns("patch", g.err, <<>>, entitiesIdentifiers,
                                     newDatasource)
                     ELSE /\ http' = Append(AuthRequests(g),
                                            Request("patch", g.tok, NoCursor,
                                                    entitiesIdentifiers,
                                                    newDatasource, res))
                          /\ Returns("patch", PatchError(res), <<>>,
                                     entitiesIdentifiers, newDatasource)
    /\ UNCHANGED <<wireVars, diffVars, runVars, now, cpc, allEntities, next, stored, eager, lifetime>>

\* the command does not run while the client is exercised on its own
RunAtRest ==
    /\ args = [blueprint |-> "", all |-> FALSE, dryRun |-> FALSE, configOk |-> FALSE]
    /\ dataSources = <<>>
    /\ catalog = [g \in Groups |-> <<>>]
    /\ nextId = 1
    /\ changes = 0
    /\ pc = "start"
    /\ listing = <<>>
    /\ blueprints = <<>>
    /\ idx = 0
    /\ blueprintCounts = [g \in {} |-> 0]
    /\ totalEntities = 0
    /\ stats = EmptyStats
    /\ input = <<>>
    /\ identifiers = <<>>
    /\ i = 0
    /\ log = <<>>
    /\ out = <<>>
    /\ err = "nil"
    /\ exitCode = -1

\* NewClient(baseURL, clientID, clientSecret)
NewClient ==
    /\ token = ""
    /\ tokenExpires = 0
    /\ now = 0
    /\ cpc = "idle"
    /\ bearer = ""
    /\ allEntities = <<>>
    /\ next = NoCursor
    /\ http = <<>>
    /\ ret = NoReturn
    /\ tokenCall = NoTokenCall

\* a client used for searches of one query
InitSearch ==
    /\ RunAtRest
    /\ WireAtRest
    /\ DiffAtRest
    /\ NewClient
    /\ stored \in StoredCounts
    /\ eager \in BOOLEAN
    /\ lifetime = ThreeMinutes + Minute

NextSearch ==
    \/ Tick
    \/ SearchEntitiesByBlueprint
    \/ SearchPage

SpecSearch == InitSearch /\ [][NextSearch]_vars

\* a client searching a query of more than one page while the service issues
\* tokens that are valid for one minute
InitShortLived ==
    /\ RunAtRest
    /\ WireAtRest
    /\ DiffAtRest
    /\ NewClient
    /\ stored \in {PageLimit + 1, MaxStored}
    /\ eager \in BOOLEAN
    /\ lifetime = Minute

NextShortLived ==
    \/ Tick
    \/ SearchEntitiesByBlueprint
    \/ SearchPage

SpecShortLived == InitShortLived /\ [][NextShortLived]_vars

\* a client used for bulk patches
InitPatch ==
    /\ RunAtRest
    /\ WireAtRest
    /\ DiffAtRest
    /\ NewClient
    /\ stored = 0
    /\ eager = FALSE
    /\ lifetime = ThreeMinutes + Minute

NextPatch ==
    \/ Tick
    \/ PatchEntitiesDatasourceBulk

SpecPatch == InitPatch /\ [][NextPatch]_vars

(***************************************************************************)
(* The requests of a run on the wire: the commands call the client's       *)
(* methods one after another, and every method waits in httpClient.Post or *)
(* httpClient.Do until its request is answered.                            *)
(***************************************************************************)
\* at most MaxSent requests are sent
MaxSent == 10

\* GetIntegrationVersion, GetBlueprintsByDataSource, searchEntitiesByBlueprint,
\* PatchEntitiesDatasourceBulk
Methods == {"version", "discover", "search", "patch"}

\* request number n, of a kind, about a group
WireRequest(kind, group) == [kind |-> kind, group |-> group, n |-> wsent + 1]

\* a method is called without waiting for the one before it
CallerReadyAlways == TRUE

\* the caller is in no method: the call before has returned
CallerReady == wpc = "idle"

\* the next statement of the run calls a method of the client, which calls
\* getToken and sends the auth request or, with a cached token, its own
CallMethod ==
    /\ CallerReady
    /\ wsent + 2 <= MaxSent
    /\ \E m \in Methods, g \in Groups, cached \in BOOLEAN :
         LET group == IF m \in {"search", "patch"} THEN g ELSE "" IN
         /\ wcall' = [method |-> m, group |-> group]
         /\ inflight' = inflight \cup {WireRequest(IF cached THEN m ELSE "auth", group)}
         /\ wpc' = IF cached THEN "request" ELSE "auth"
    /\ wsent' = wsent + 1
    /\ UNCHANGED <<runVars, clientVars, diffVars>>

\* httpClient.Post returns in getToken: an error ends the method, a token
\* lets it send its request
AuthAnswered ==
    /\ wpc = "auth"
    /\ \E r \in inflight, ok \in BOOLEAN :
         /\ r.kind = "auth"
         /\ IF ok
              THEN /\ inflight' = (inflight \ {r})
                                    \cup {WireRequest(wcall.method, wcall.group)}
                   /\ wsent' = wsent + 1
                   /\ wpc' = "request"
                   /\ wcall' = wcall
              ELSE /\ inflight' = inflight \ {r}
                   /\ wpc' = "idle"
                   /\ wcall' = NoCall
                   /\ wsent' = wsent
    /\ UNCHANGED <<runVars, clientVars, diffVars>>

\* httpClient.Do returns: a search whose response carries a cursor sends the
\* next page, every other method returns
Answered ==
    /\ wpc = "request"
    /\ \E r \in inflight, more \in BOOLEAN :
         /\ r.kind # "auth"
         /\ IF wcall.method = "search" /\ more /\ wsent < MaxSent
              THEN /\ inflight' = (inflight \ {r})
                                    \cup {WireRequest("search", wcall.group)}
                   /\ wsent' = wsent + 1
                   /\ UNCHANGED <<wpc, wcall>>
              ELSE /\ inflight' = inflight \ {r}
                   /\ wpc' = "idle"
                   /\ wcall' = NoCall
                   /\ wsent' = wsent
    /\ UNCHANGED <<runVars, clientVars, diffVars>>

InitWire ==
    /\ RunAtRest
    /\ ClientAtRest
    /\ DiffAtRest
    /\ WireAtRest

NextWire ==
    \/ CallMethod
    \/ AuthAnswered
    \/ Answered

SpecWire == InitWire /\ [][NextWire]_vars

(***************************************************************************)
(* internal/diff: Service, as the get-diff command uses it.                *)
(* A decoded JSON value (interface{}) is nil, a string or a               *)
(* map[string]interface{}; a path "a.b.c" is the sequence of its segments. *)
(***************************************************************************)
Nil == [t |-> "nil"]
Str(s) == [t |-> "str", v |-> s]
Map(f) == [t |-> "map", v |-> f]
\* map[string]interface{}{}
EmptyMap == [k \in {} |-> Nil]

\* port.Entity
Entity(id, title, meta, props, rels) ==
    [Identifier |-> id, Title |-> title, Blueprint |-> meta.Blueprint,
     CreatedAt |-> meta.CreatedAt, UpdatedAt |-> meta.UpdatedAt,
     CreatedBy |-> meta.CreatedBy, UpdatedBy |-> meta.UpdatedBy,
     Properties |-> props, Relations |-> rels]

\* the metadata of an entity under the old and under the new integration
OldMeta ==
    [Blueprint |-> "old", CreatedAt |-> "d1", UpdatedAt |-> "d1",
     CreatedBy |-> "app", UpdatedBy |-> "app"]
NewMeta ==
    [Blueprint |-> "new", CreatedAt |-> "d2", UpdatedAt |-> "d3",
     CreatedBy |-> "ocean", UpdatedBy |-> "ocean"]

\* entities of the catalog that differ by identifier, and B also by title
Pool ==
    <<Entity("A", "t", OldMeta, "k" :> Str("x"), Nil),
      Entity("B", "t", OldMeta, "k" :> Str("x"), Nil),
      Entity("B", "t2", OldMeta, "k" :> Str("x"), Nil),
      Entity("C", "t", OldMeta, "k" :> Str("x"), Nil),
      Entity("D", "t", OldMeta, "k" :> Str("x"), Nil)>>

\* the entities of pool at the positions S, in pool order
RECURSIVE Pick(_, _, _)
Pick(pool, S, k) ==
    IF k > Len(pool) THEN <<>>
    ELSE (IF k \in S THEN <<pool[k]>> ELSE <<>>) \o Pick(pool, S, k + 1)

\* what a search of the catalog may return
SearchResults == {Pick(Pool, S, 1) : S \in SUBSET DOMAIN Pool}

\* properties and relations one entity may carry
PropertyChoices ==
    {EmptyMap,
     "k" :> Nil,
     "k" :> Str("x"),
     "k" :> Str("y"),
     "k" :> Map(EmptyMap),
     "k" :> Map("k" :> Str("x")),
     "k" :> Map("createdAt" :> Str("x")),
     "k" :> Map("createdAt" :> Str("y")),
     "createdAt" :> Str("x"),
     "createdAt" :> Str("y"),
     ("k" :> Str("x")) @@ ("createdAt" :> Str("y"))}
RelationChoices ==
    {Nil, Map("createdAt" :> Str("x")), Map("createdAt" :> Str("y"))}

\* one entity as the old integration left it, and as the new one may hold it
SourceShapes ==
    {Entity("B", title, OldMeta, props, rels) :
       title \in {"t", "t2"}, props \in PropertyChoices, rels \in RelationChoices}
TargetShapes ==
    {Entity("B", title, meta, props, rels) :
       title \in {"t", "t2"}, meta \in {OldMeta, NewMeta},
       props \in PropertyChoices, rels \in RelationChoices}

\* what the two searches of CompareBlueprints may return
Fetches ==
    (SearchResults \X SearchResults)
      \cup {<<(<<e1>>), (<<e2>>)>> : e1 \in SourceShapes, e2 \in TargetShapes}

\* excludedProps
ExcludedProps == {"blueprint", "createdAt", "updatedAt", "createdBy", "updatedBy"}

\* sourceMap[e.Identifier] = e for every entity of the slice, in order
IndexEntities(entities) ==
    [id \in {entities[k].Identifier : k \in DOMAIN entities} |->
       entities[CHOOSE k \in DOMAIN entities :
                  /\ entities[k].Identifier = id
                  /\ \A j \in DOMAIN entities : entities[j].Identifier = id => j <= k]]

\* every property is kept
filterNothing(props, excluded) == props

\* filterProperties
filterProperties(props, excluded) ==
    [k \in DOMAIN props \ excluded |-> props[k]]

\* no two entities are equal
entitiesNeverEqual(e1, e2, excluded) == FALSE

\* entitiesEqual; reflect.DeepEqual is equality of the decoded values
entitiesEqual(e1, e2, excluded) ==
    /\ e1.Title = e2.Title
    /\ filterProperties(e1.Properties, excluded) = filterProperties(e2.Properties, excluded)
    /\ e1.Relations = e2.Relations

\* models.PropertyDiff
PropertyDiff(old, new) == [OldValue |-> old, NewValue |-> new]
\* make(map[string]models.PropertyDiff)
NoDiffs == [p \in {} |-> PropertyDiff(Nil, Nil)]

\* the title is left out of the diffs
TitleDiffsNone(e1, e2) == NoDiffs

\* getPropertyDiffs: "Check title"
TitleDiffs(e1, e2) ==
    IF e1.Title # e2.Title
    THEN <<"title">> :> PropertyDiff(Str(e1.Title), Str(e2.Title))
    ELSE NoDiffs

\* getPropertyDiffs: "Check e1 properties"; v2 is nil when m2 has no k
SourceKeyDiffs(m1, m2) ==
    [p \in {<<"properties", k>> :
              k \in {j \in DOMAIN m1 : j \notin DOMAIN m2 \/ m1[j] # m2[j]}} |->
       PropertyDiff(m1[p[2]], IF p[2] \in DOMAIN m2 THEN m2[p[2]] ELSE Nil)]

\* getPropertyDiffs: "Check e2 properties for new fields"
TargetKeyDiffs(m1, m2) ==
    [p \in {<<"properties", k>> : k \in DOMAIN m2 \ DOMAIN m1} |->
       PropertyDiff(Nil, m2[p[2]])]

\* getPropertyDiffs: "Check relations"
RelationsDiffs(e1, e2) ==
    IF e1.Relations # e2.Relations
    THEN <<"relations">> :> PropertyDiff(e1.Relations, e2.Relations)
    ELSE NoDiffs

\* getPropertyDiffs
getPropertyDiffs(e1, e2, excluded) ==
    LET m1 == filterProperties(e1.Properties, excluded)
        m2 == filterProperties(e2.Properties, excluded) IN
    TitleDiffs(e1, e2) @@ SourceKeyDiffs(m1, m2) @@ TargetKeyDiffs(m1, m2)
      @@ RelationsDiffs(e1, e2)

\* FlattenedDiff
FlattenedDiff(path, old, new) == [Path |-> path, OldValue |-> old, NewValue |-> new]

\* oldMap[k]: nil when the map has no k
Lookup(m, k) == IF k \in DOMAIN m THEN m[k] ELSE Nil

\* flattenValue; the slice it returns, as the set of its elements
RECURSIVE flattenValue(_, _, _)
flattenValue(prefix, oldVal, newVal) ==
    IF oldVal.t = "map" /\ newVal.t = "map"
    THEN UNION {flattenValue(Append(prefix, k), Lookup(oldVal.v, k), Lookup(newVal.v, k)) :
                  k \in DOMAIN oldVal.v \cup DOMAIN newVal.v}
    ELSE IF oldVal.t = "map" \/ newVal.t = "map"
    THEN {FlattenedDiff(prefix, oldVal, newVal)}
    ELSE IF oldVal # newVal
    THEN {FlattenedDiff(prefix, oldVal, newVal)}
    ELSE {}

\* flattenDiffs
flattenDiffs(diffs) ==
    UNION {flattenValue(p, diffs[p].OldValue, diffs[p].NewValue) : p \in DOMAIN diffs}

\* models.EntityChange
EntityChange(id, type, diffs) ==
    [Identifier |-> id, Type |-> type, PropertyDiffs |-> diffs]

\* the comparison counts every common entity as changed
CountsAsChangedAlways(equal) == TRUE

\* the else branch of "if entitiesEqual(...)"
CountsAsChanged(equal) == ~equal

\* the test  _, exists := m[id]  always fails
ExistsNever(m, id) == FALSE

\* _, exists := m[id]
Exists(m, id) == id \in DOMAIN m

\* "Check common entities": the loop body for the identifiers of order, in turn
RECURSIVE CheckCommon(_, _, _, _)
CheckCommon(order, sourceMap, targetMap, res) ==
    IF order = <<>> THEN res
    ELSE LET id == Head(order)
             equal == entitiesEqual(sourceMap[id], targetMap[id], ExcludedProps)
             after ==
               IF Exists(targetMap, id)
               THEN [Summary |->
                       [res.Summary EXCEPT
                          !.Identical = IF equal THEN @ + 1 ELSE @,
                          !.Changed = IF CountsAsChanged(equal) THEN @ + 1 ELSE @],
                     Changes |->
                       IF CountsAsChanged(equal)
                       THEN Append(res.Changes,
                                   EntityChange(id, "changed",
                                                getPropertyDiffs(sourceMap[id],
                                                                 targetMap[id],
                                                                 ExcludedProps)))
                       ELSE res.Changes]
               ELSE [Summary |-> [res.Summary EXCEPT !.NotMigrated = @ + 1],
                     Changes |-> Append(res.Changes,
                                        EntityChange(id, "notMigrated", NoDiffs))]
         IN CheckCommon(Tail(order), sourceMap, targetMap, after)

\* the second loop is left out
CheckOrphanedSkipped(order, sourceMap, res) == res

\* "Check for orphaned entities"
RECURSIVE CheckOrphaned(_, _, _)
CheckOrphaned(order, sourceMap, res) ==
    IF order = <<>> THEN res
    ELSE LET id == Head(order)
             after ==
               IF ~Exists(sourceMap, id)
               THEN [Summary |-> [res.Summary EXCEPT !.Orphaned = @ + 1],
                     Changes |-> Append(res.Changes,
                                        EntityChange(id, "orphaned", NoDiffs))]
               ELSE res
         IN CheckOrphaned(Tail(order), sourceMap, after)

\* the results CompareBlueprints may return for two fetched slices: the maps
\* are ranged over in any order
Compare(source, target) ==
    LET sourceMap == IndexEntities(source)
        targetMap == IndexEntities(target) IN
    {CheckOrphaned(order2, sourceMap,
                   CheckCommon(order1, sourceMap, targetMap, EmptyDiffResult)) :
       order1 \in Orderings(DOMAIN sourceMap),
       order2 \in Orderings(DOMAIN targetMap)}

\* CompareBlueprints: the two searches, either of which may fail, then the
\* comparison
CompareBlueprints ==
    /\ dpc = "start"
    /\ \/ /\ cmpErr' = "failed to get source entities"
          /\ dpc' = "failed"
          /\ UNCHANGED <<sourceEntities, targetEntities, result>>
       \/ \E fetch \in Fetches :
            /\ sourceEntities' = fetch[1]
            /\ cmpErr' = "failed to get target entities"
            /\ dpc' = "failed"
            /\ UNCHANGED <<targetEntities, result>>
       \/ \E fetch \in Fetches :
            /\ sourceEntities' = fetch[1]
            /\ targetEntities' = fetch[2]
            /\ result' \in Compare(fetch[1], fetch[2])
            /\ cmpErr' = "nil"
            /\ dpc' = "compared"
    /\ printed' = printed
    /\ UNCHANGED <<runVars, clientVars, wireVars>>

\* limit := 10
DefaultLimit == 10
\* values of --limit
Limits == {1, DefaultLimit}

\* PrintDetailedDiffs: the changed entities shown, at most limit of them, each
\* with the lines of its flattened diffs
RECURSIVE PrintDetailedDiffs(_, _)
PrintDetailedDiffs(list, limit) ==
    IF list = <<>> \/ limit <= 0 THEN <<>>
    ELSE IF Head(list).Type # "changed"
    THEN PrintDetailedDiffs(Tail(list), limit)
    ELSE <<[Identifier |-> Head(list).Identifier,
            lines |-> flattenDiffs(Head(list).PropertyDiffs)]>>
         \o PrintDetailedDiffs(Tail(list), limit - 1)

\* the rest of RunE of get-diff: the summary, then the detailed diffs if
\* --show-diffs is set and there are changes
ShowDiffs ==
    /\ dpc = "compared"
    /\ \E showDiffs \in BOOLEAN, limit \in Limits :
         printed' = IF showDiffs /\ Len(result.Changes) > 0
                      THEN PrintDetailedDiffs(result.Changes, limit)
                      ELSE <<>>
    /\ dpc' = "printed"
    /\ UNCHANGED <<sourceEntities, targetEntities, result, cmpErr>>
    /\ UNCHANGED <<runVars, clientVars, wireVars>>

InitDiff ==
    /\ RunAtRest
    /\ ClientAtRest
    /\ WireAtRest
    /\ DiffAtRest

NextDiff ==
    \/ CompareBlueprints
    \/ ShowDiffs

SpecDiff == InitDiff /\ [][NextDiff]_vars

(***************************************************************************)
(* Vocabulary of the properties.                                           *)
(***************************************************************************)
\* positions in the log of the bulk-patch calls, and of those whose PATCH
\* request was sent
PatchCalls == {k \in DOMAIN log : log[k].call = "patch"}
PatchRequests == {k \in PatchCalls : log[k].res # "autherr"}
\* positions of the entity searches whose request was sent
SearchRequests == {k \in DOMAIN log : log[k].call = "search" /\ log[k].res # "autherr"}

Said(msg) == \E k \in DOMAIN out : out[k] = msg
Prompted == Said("Type 'yes' to proceed: ")
Declined == Said("Migration cancelled.")
Reported == Said("Migration complete!")

\* the calls of the Count loop, in order
CountCalls == SelectSeq(log, LAMBDA c : c.phase = "count")

(***************************************************************************)
(* C1: no bulk-patch request is issued unless the operator was prompted    *)
(* and the confirmation was accepted; a declined run ends with no patch    *)
(* request at all, a nil error and exit code 0.                            *)
(***************************************************************************)
C1_NoPatchWithoutConfirmation ==
    /\ PatchCalls # {} =>
         /\ Prompted
         /\ input = Yes
         /\ pc \notin {"confirm", "confirm_read"}
    /\ Declined =>
         /\ PatchCalls = {}
         /\ pc \in {"returned", "exited"}
         /\ err = "nil"
         /\ pc = "exited" => exitCode = 0

C1_Witness ==
    /\ pc = "exited"
    /\ Declined
    /\ ~args.dryRun
    /\ input = <<"Y", "E", "S">>
    /\ exitCode = 0

(***************************************************************************)
(* C2 (as claimed): Confirm proceeds if and only if the input line, the    *)
(* line terminator aside, is character for character "yes".                *)
(***************************************************************************)
LineOf(s) == IF s # <<>> /\ s[Len(s)] = "\n" THEN SubSeq(s, 1, Len(s) - 1) ELSE s

YesInWhiteSpace(s) ==
    \E a \in 0..Len(s) :
        /\ a + 3 <= Len(s)
        /\ SubSeq(s, a + 1, a + 3) = Yes
        /\ \A k \in (1..a) \cup ((a + 4)..Len(s)) : s[k] \in WhiteSpace

C3_DryRunNeverPatches ==
    /\ args.dryRun => PatchCalls = {}
    /\ pc \in {"confirm", "confirm_read"} =>
         /\ Prompted
         /\ Len(CountCalls) = Len(blueprints)
         /\ \A k \in DOMAIN CountCalls :
              /\ CountCalls[k].call = "search"
              /\ CountCalls[k].bp = blueprints[k]
              /\ CountCalls[k].res = "ok"

C3_Witness ==
    /\ pc = "exited"
    /\ args.dryRun
    /\ input = Yes
    /\ Reported
    /\ stats.SuccessfulBatches = 2
    /\ PatchCalls = {}

(***************************************************************************)
(* More vocabulary: the batches of a group.                                *)
(***************************************************************************)
MaxOf(S) == CHOOSE m \in S : \A n \in S : n <= m

\* positions of the searches migrateBlueprint made that returned entities
MigrateSearches ==
    {k \in DOMAIN log : log[k].call = "search" /\ log[k].phase = "migrate" /\ log[k].res = "ok"}

\* the identifiers migrateBlueprint had fetched when it made patch call k
FetchedFor(k) ==
    log[MaxOf({m \in MigrateSearches : m < k /\ log[m].bp = log[k].bp})].ids

\* the bulk-patch calls made for the identifiers fetched by search k, in order
BatchesOf(k) ==
    SelectSeq(SubSeq(log, k + 1, Len(log)),
              LAMBDA c : c.call = "patch" /\ c.bp = log[k].bp)

RECURSIVE Flatten(_)
Flatten(calls) ==
    IF calls = <<>> THEN <<>> ELSE Head(calls).ids \o Flatten(Tail(calls))

FailedPatches == {k \in PatchCalls : log[k].res # "ok"}

(***************************************************************************)
(* C4 (as claimed): when the bulk-patch request of a batch fails, the      *)
(* later batches of the same group are still attempted in the run.         *)
(***************************************************************************)
C4_LaterBatchesAttempted ==
    pc = "exited" =>
      \A k \in PatchRequests :
         (log[k].res # "ok" /\ log[k].ids[Len(log[k].ids)] # FetchedFor(k)[Len(FetchedFor(k))])
           => \E j \in PatchCalls : j > k /\ log[j].bp = log[k].bp

(***************************************************************************)
(* C5: when a bulk-patch call fails for a batch of a group, the run still  *)
(* reaches the report, migrateBlueprint has run for every group of the     *)
(* list, and every group whose search returned entities had its first      *)
(* batch attempted.                                                        *)
(***************************************************************************)
C5_LaterGroupsStillProcessed ==
    (pc \in {"returned", "exited"} /\ FailedPatches # {}) =>
      /\ Reported
      /\ \A b \in DOMAIN blueprints :
           \E k \in DOMAIN log :
              /\ log[k].call = "search"
              /\ log[k].phase = "migrate"
              /\ log[k].bp = blueprints[b]
      /\ \A k \in MigrateSearches :
           log[k].ids # <<>> =>
              /\ k < Len(log)
              /\ log[k + 1].call = "patch"
              /\ log[k + 1].bp = log[k].bp
              /\ log[k + 1].ids[1] = log[k].ids[1]

C5_Witness ==
    /\ pc = "exited"
    /\ Len(blueprints) = 2
    /\ \E k \in FailedPatches, j \in PatchRequests :
         /\ log[k].bp = blueprints[1]
         /\ log[j].bp = blueprints[2]
         /\ k < j

(***************************************************************************)
(* C6 (as claimed): after a confirmed run that is no dry run, TotalBatches *)
(* is the sum over the groups of ceil(n_g/100), FailedBatches the number   *)
(* of failed bulk-patch calls, and SuccessfulBatches + FailedBatches =     *)
(* TotalBatches.                                                           *)
(***************************************************************************)
C6_BatchStatistics ==
    (pc = "exited" /\ Reported /\ ~args.dryRun) =>
      /\ stats.TotalBatches =
           SumOver([g \in ToSet(blueprints) |-> CeilDiv(blueprintCounts[g], BatchSize)],
                   ToSet(blueprints))
      /\ stats.FailedBatches = Cardinality(FailedPatches)
      /\ stats.SuccessfulBatches + stats.FailedBatches = stats.TotalBatches

(***************************************************************************)
(* C7 (as claimed): a run that reaches the report exits with a non-zero    *)
(* status if and only if at least one batch failed.                        *)
(***************************************************************************)
C7_ExitStatusTellsFailure ==
    (pc = "exited" /\ Reported) => ((exitCode # 0) <=> (FailedPatches # {}))

(***************************************************************************)
(* C8 (as claimed): the batch loop over the N identifiers fetched for a    *)
(* group yields ceil(N/100) batches of 1 to 100 identifiers each, whose    *)
(* concatenation in order is the list fetched.                             *)
(***************************************************************************)
C8_BatchesPartitionIdentifiers ==
    pc = "exited" =>
      \A k \in MigrateSearches :
         LET batches == BatchesOf(k) IN
         /\ Len(batches) = CeilDiv(Len(log[k].ids), BatchSize)
         /\ \A b \in DOMAIN batches : Len(batches[b].ids) \in 1..BatchSize
         /\ Flatten(batches) = log[k].ids

(***************************************************************************)
(* C9: within one run no entity identifier of a group is carried by more   *)
(* than one bulk-patch call, whether the earlier call succeeded or failed, *)
(* and every failed call is recorded in stats.Errors.                      *)
(***************************************************************************)
C9_NoIdentifierPatchedTwice ==
    /\ \A j, k \in PatchCalls :
         (j < k /\ log[j].bp = log[k].bp)
           => ToSet(log[j].ids) \cap ToSet(log[k].ids) = {}
    /\ \A k \in FailedPatches :
         \E e \in DOMAIN stats.Errors :
            /\ stats.Errors[e].blueprint = log[k].bp
            /\ stats.Errors[e].cause = "failed to patch batch"

C9_Witness ==
    /\ pc = "exited"
    /\ \E j, k \in PatchRequests :
         /\ j < k
         /\ log[j].bp = log[k].bp
         /\ log[j].res = "ok"
         /\ log[k].res = "httperr"

(***************************************************************************)
(* C10 (as claimed): no entity search is made after the operator confirms, *)
(* and the identifiers patched for a group are those fetched for it during *)
(* Count, whatever happens to the catalog in between.                      *)
(***************************************************************************)
\* the identifiers the Count loop fetched for a group
Counted(g) ==
    UNION {ToSet(log[k].ids) :
             k \in {m \in DOMAIN log : log[m].phase = "count" /\ log[m].bp = g}}

Patched(g) ==
    UNION {ToSet(log[k].ids) : k \in {m \in PatchRequests : log[m].bp = g}}

C10_PatchesWhatWasCounted ==
    /\ \A k \in DOMAIN log : log[k].call = "search" => log[k].phase # "migrate"
    /\ \A g \in ToSet(blueprints) : Patched(g) \subseteq Counted(g)
    /\ (/\ pc = "exited"
        /\ Reported
        /\ ~args.dryRun
        /\ \A k \in DOMAIN log : log[k].res = "ok")
         => \A g \in ToSet(blueprints) : Patched(g) = Counted(g)

(***************************************************************************)
(* C11 (as claimed): a search that fails while the groups are counted does *)
(* not end the run: every discovered group is still counted, and the       *)
(* failure is appended to stats.Errors.                                    *)
(***************************************************************************)
FailedCounts ==
    {k \in DOMAIN log : log[k].phase = "count" /\ log[k].res # "ok"}

C11_CountFailureTolerated ==
    (pc = "exited" /\ FailedCounts # {})
      => /\ \A g \in ToSet(blueprints) :
              \E k \in DOMAIN log : log[k].phase = "count" /\ log[k].bp = g
         /\ \A k \in FailedCounts :
              \E e \in DOMAIN stats.Errors : stats.Errors[e].blueprint = log[k].bp

(***************************************************************************)
(* C12: when the groups hold no entity at all, the run ends before the     *)
(* prompt: the warning is printed, the operator is never asked, nothing is *)
(* patched, no batch is recorded, and the run returns nil (exit status 0). *)
(* The prompt is only ever shown for a positive total.                     *)
(***************************************************************************)
NothingToMigrate == Said("No entities found to migrate. Exiting.")

C12_NothingToMigrate ==
    /\ NothingToMigrate
         => /\ totalEntities = 0
            /\ ~Prompted
            /\ PatchCalls = {}
            /\ stats.TotalBatches = 0
            /\ stats.SuccessfulBatches = 0
            /\ stats.FailedBatches = 0
            /\ stats.Errors = <<>>
            /\ pc \in {"returned", "exited"}
            /\ err = "nil"
            /\ pc = "exited" => exitCode = 0
    /\ Prompted => totalEntities > 0
    /\ (pc \in {"confirm", "confirm_read", "migrate", "patch", "report"})
         => totalEntities > 0

C12_Witness ==
    /\ pc = "exited"
    /\ NothingToMigrate
    /\ Len(blueprints) = 2
    /\ exitCode = 0

(***************************************************************************)
(* C13 (as claimed): when discovery finds no group, a migration of all     *)
(* groups ends successfully (exit status 0) with a warning, without a      *)
(* prompt and without any search or patch request.                         *)
(***************************************************************************)
NoGroupsDiscovered ==
    \E k \in DOMAIN log :
       /\ log[k].call = "discover"
       /\ log[k].res = "ok"
       /\ BlueprintSet(dataSources, OldInstallationID) = {}

C13_NoGroupsEndsSuccessfully ==
    (pc = "exited" /\ args.all /\ NoGroupsDiscovered)
      => /\ exitCode = 0
         /\ err = "nil"
         /\ ~Prompted
         /\ SearchRequests = {}
         /\ PatchCalls = {}

(***************************************************************************)
(* C18 (as claimed): a call that cannot obtain its credential ends the     *)
(* whole run, also while the groups are migrated: no search and no patch   *)
(* follows it, and the run ends with an error.                             *)
(***************************************************************************)
AuthFailures ==
    {k \in DOMAIN log :
       log[k].res = "autherr" /\ log[k].phase \in {"discover", "count", "migrate"}}

C18_AuthFailureAbortsRun ==
    \A k \in AuthFailures :
       /\ \A m \in DOMAIN log : m <= k
       /\ pc = "exited" => (exitCode = 1 /\ err # "nil")

(***************************************************************************)
(* C19: a search that fails while a group is migrated costs that group     *)
(* only: the failure is recorded against the group, none of its batches is *)
(* patched, and the run goes on to the groups after it and to its report.  *)
(***************************************************************************)
FailedFetches ==
    {k \in DOMAIN log : log[k].phase = "migrate" /\ log[k].call = "search"
                          /\ log[k].res # "ok"}

\* the position of a group in the discovered list
PositionOf(g) == CHOOSE b \in DOMAIN blueprints : blueprints[b] = g

C19_FetchFailureCostsOneGroup ==
    \A k \in FailedFetches :
       LET g == log[k].bp IN
       /\ \A m \in PatchCalls : log[m].bp # g
       /\ \E e \in DOMAIN stats.Errors :
             /\ stats.Errors[e].blueprint = g
             /\ stats.Errors[e].cause = "failed to search entities"
       /\ stats.FailedBatches >= 1
       /\ pc \in {"returned", "exited"}
            => /\ Reported
               /\ err = "nil"
               /\ \A b \in DOMAIN blueprints :
                     b > PositionOf(g)
                       => \E m \in DOMAIN log :
                             /\ m > k
                             /\ log[m].call = "search"
                             /\ log[m].phase = "migrate"
                             /\ log[m].bp = blueprints[b]

C19_Witness ==
    /\ pc = "exited"
    /\ Len(blueprints) = 2
    /\ \E k \in FailedFetches :
         /\ log[k].bp = blueprints[1]
         /\ log[k].res = "httperr"
         /\ \E m \in PatchRequests : log[m].bp = blueprints[2] /\ log[m].res = "ok"

(***************************************************************************)
(* C14 (as claimed): a search whose query matches N entities, served in    *)
(* pages of PageLimit, sends exactly ceil(N / PageLimit) search requests   *)
(* and returns the N entities, each once.                                  *)
(***************************************************************************)
\* positions of the search requests of the current method
PageRequests == {k \in DOMAIN http : http[k].kind = "search"}

SearchSucceeded == ret.method = "search" /\ ret.err = "nil"

C14_CeilRequests ==
    SearchSucceeded
      => /\ Cardinality(PageRequests) = CeilDiv(stored, PageLimit)
         /\ ret.entities = Range(1, stored)

(***************************************************************************)
(* C14 (amended): the search sends one request per page served, and at     *)
(* least one: max(1, ceil(N / PageLimit)) requests when the service sends  *)
(* a cursor only while entities remain, N div PageLimit + 1 when it sends  *)
(* one with every full page; it returns the N entities, each once.         *)
(***************************************************************************)
C14_OneRequestPerPage ==
    SearchSucceeded
      => /\ Cardinality(PageRequests) =
              IF eager THEN (stored \div PageLimit) + 1
              ELSE IF stored = 0 THEN 1
              ELSE CeilDiv(stored, PageLimit)
         /\ ret.entities = Range(1, stored)

C14_Witness ==
    /\ SearchSucceeded
    /\ ~eager
    /\ stored = MaxStored
    /\ Cardinality(PageRequests) = 3
    /\ Len(ret.entities) = MaxStored

(***************************************************************************)
(* C15: when a page request of a search fails (transport error, non-200    *)
(* status, undecodable body) the search returns that error and no entity:  *)
(* the pages fetched before are dropped, the failing request is the last   *)
(* one sent, and every request before it succeeded.                        *)
(***************************************************************************)
PageFailures == PageOutcomes \ {"ok"}

C15_FailedPageFailsSearch ==
    /\ (ret.method = "search" /\ ret.err \in PageFailures)
         => /\ ret.entities = <<>>
            /\ cpc = "idle"
            /\ http # <<>>
            /\ http[Len(http)].kind = "search"
            /\ http[Len(http)].res = ret.err
            /\ \A k \in PageRequests : k < Len(http) => http[k].res = "ok"
    /\ \A k \in PageRequests :
         http[k].res # "ok"
           => /\ k = Len(http)
              /\ ret.method = "search"
              /\ ret.err = http[k].res

C15_Witness ==
    /\ ret.method = "search"
    /\ ret.err = "failed to decode response"
    /\ Cardinality(PageRequests) = 3
    /\ Len(allEntities) = 2 * PageLimit

(***************************************************************************)
(* C16 (as claimed): getToken asks the auth endpoint exactly when no token *)
(* is cached or the cached token has less than three minutes left; with    *)
(* three minutes or more left it returns the cached token and sends        *)
(* nothing.                                                                *)
(***************************************************************************)
C16_ExchangeBelowThreeMinutes ==
    tokenCall.called
      => /\ tokenCall.exchanged
              <=> (tokenCall.cached = "" \/ tokenCall.remaining < ThreeMinutes)
         /\ ~tokenCall.exchanged
              => (tokenCall.tok = tokenCall.cached /\ tokenCall.err = "nil")

(***************************************************************************)
(* C17 (as claimed): getToken returns an error and no token whenever the   *)
(* auth endpoint answers with a status other than 200, or with a body that *)
(* carries neither accessToken nor expiresIn.                              *)
(***************************************************************************)
Malformed(reply) ==
    \/ ~reply.decodable
    \/ reply.body.accessToken = <<>> /\ reply.body.expiresIn = <<>>

C17_MalformedReplyFails ==
    (/\ tokenCall.called
     /\ tokenCall.exchanged
     /\ ~tokenCall.reply.transport
     /\ (tokenCall.reply.status # StatusOK \/ Malformed(tokenCall.reply)))
      => /\ tokenCall.err # "nil"
         /\ tokenCall.tok = ""

(***************************************************************************)
(* C20: PatchEntitiesDatasourceBulk with an empty identifier list returns  *)
(* nil without calling getToken and without sending a request.             *)
(***************************************************************************)
C20_EmptyListSendsNothing ==
    (ret.method = "patch" /\ ret.ids = <<>>)
      => /\ ret.err = "nil"
         /\ tokenCall = NoTokenCall
         /\ http = <<>>

C20_Witness ==
    /\ ret.method = "patch"
    /\ ret.ids = <<>>
    /\ ret.err = "nil"
    /\ token = ""
    /\ now > 0

(***************************************************************************)
(* C28 (as claimed): every failed batch adds exactly one entry to          *)
(* stats.Errors, and that entry names the group and the index of the       *)
(* batch that failed.                                                      *)
(***************************************************************************)
\* the index, from 1, of the batch that patch call k carried
BatchIndexOf(k) ==
    Cardinality({m \in PatchCalls : m <= k /\ log[m].bp = log[k].bp})

C28_ErrorNamesGroupAndBatch ==
    \A k \in PatchCalls :
       log[k].res # "ok"
         => /\ Cardinality({e \in DOMAIN stats.Errors :
                              /\ stats.Errors[e].blueprint = log[k].bp
                              /\ stats.Errors[e].cause = "failed to patch batch"}) = 1
            /\ \E e \in DOMAIN stats.Errors :
                 /\ stats.Errors[e].blueprint = log[k].bp
                 /\ "batch" \in DOMAIN stats.Errors[e]
                 /\ stats.Errors[e].batch = BatchIndexOf(k)

(***************************************************************************)
(* C29 (as claimed): the migrate command called with no blueprint and      *)
(* without --all migrates all blueprints of the old installation, as if    *)
(* --all had been given.                                                   *)
(***************************************************************************)
C29_AllIsTheDefault ==
    (pc = "exited" /\ args.blueprint = "" /\ ~args.all /\ args.configOk)
      => /\ err # "either provide a blueprint name or use --all flag"
         /\ \E k \in DOMAIN log : log[k].call = "version"

(***************************************************************************)
(* C21: a call of PatchEntitiesDatasourceBulk with a non-empty list sends  *)
(* at most one PATCH request, carrying the whole list and the new          *)
(* datasource; a failed request is returned as the call's error and is not *)
(* sent again.                                                             *)
(***************************************************************************)
\* positions of the PATCH requests of the current method
SentPatches == {k \in DOMAIN http : http[k].kind = "patch"}

C21_OnePatchRequestPerCall ==
    (ret.method = "patch" /\ ret.ids # <<>>)
      => /\ Cardinality(SentPatches) <= 1
         /\ \A k \in SentPatches :
              /\ http[k].ids = ret.ids
              /\ http[k].datasource = ret.datasource
              /\ http[k].res = "ok" <=> ret.err = "nil"
              /\ http[k].res # "ok" => ret.err = http[k].res
         /\ SentPatches = {} => ret.err # "nil"

C21_Witness ==
    /\ ret.method = "patch"
    /\ ret.ids = <<1, 2>>
    /\ ret.err = "patch failed"
    /\ \E k \in SentPatches : http[k].res = "patch failed" /\ http[k].ids = <<1, 2>>

(***************************************************************************)
(* C22: at most one request is in flight at any moment: a request is       *)
(* answered before the next one is sent, so no two bulk-patch requests are *)
(* in flight together for one group.                                       *)
(***************************************************************************)
C22_OneRequestInFlight ==
    /\ Cardinality(inflight) <= 1
    /\ wpc = "idle" <=> inflight = {}
    /\ \A r1, r2 \in inflight :
         (r1.kind = "patch" /\ r2.kind = "patch" /\ r1.group = r2.group) => r1 = r2

C22_Witness ==
    \E r \in inflight : r.kind = "patch" /\ r.group = "g2" /\ r.n = MaxSent

\* the comparison returned a result
Compared == dpc \in {"compared", "printed"}

\* no two entities of the slice share an identifier
UniqueIdentifiers(list) ==
    \A a, b \in DOMAIN list : list[a].Identifier = list[b].Identifier => a = b

\* C23: comparing an entity set that has unique identifiers with itself
\* yields identical = |A| and no changed, not-migrated or orphaned entity.
C23_SelfComparisonIsIdentical ==
    (Compared /\ sourceEntities = targetEntities /\ UniqueIdentifiers(sourceEntities))
      => /\ result.Summary = [Identical |-> Len(sourceEntities), NotMigrated |-> 0,
                              Changed |-> 0, Orphaned |-> 0]
         /\ result.Changes = <<>>

C23_Witness ==
    /\ dpc = "compared"
    /\ sourceEntities = targetEntities
    /\ UniqueIdentifiers(sourceEntities)
    /\ Len(sourceEntities) = 4
    /\ result.Summary.Identical = 4


\* the identifiers of a slice of entities
Identifiers(list) == {list[k].Identifier : k \in DOMAIN list}

\* the entries of result.Changes of one type, and the identifiers they name
EntriesOf(type) == {k \in DOMAIN result.Changes : result.Changes[k].Type = type}
ReportedAs(type) == {result.Changes[k].Identifier : k \in EntriesOf(type)}

\* C24: the identifiers reported as notMigrated are exactly the identifiers
\* of the source absent from the target, the identifiers reported as orphaned
\* exactly those of the target absent from the source, each reported once.
C24_NotMigratedAndOrphanedExact ==
    Compared =>
      /\ ReportedAs("notMigrated") = Identifiers(sourceEntities) \ Identifiers(targetEntities)
      /\ ReportedAs("orphaned") = Identifiers(targetEntities) \ Identifiers(sourceEntities)
      /\ Cardinality(EntriesOf("notMigrated")) = Cardinality(ReportedAs("notMigrated"))
      /\ Cardinality(EntriesOf("orphaned")) = Cardinality(ReportedAs("orphaned"))

C24_Witness ==
    /\ dpc = "compared"
    /\ Identifiers(sourceEntities) = {"A", "B", "C"}
    /\ Identifiers(targetEntities) = {"B", "D"}
    /\ ReportedAs("notMigrated") = {"A", "C"}
    /\ ReportedAs("orphaned") = {"D"}

\* identical + changed + notMigrated of the summary
SourceTotal ==
    result.Summary.Identical + result.Summary.Changed + result.Summary.NotMigrated

LeafDiffs ==
    UNION {flattenDiffs(result.Changes[k].PropertyDiffs) : k \in EntriesOf("changed")}

\* the segments of a path
Segments(path) == {path[k] : k \in DOMAIN path}

\* C26: no leaf diff path of a changed entity has an excluded metadata key
\* (blueprint, createdAt, updatedAt, createdBy, updatedBy) as a segment, at
\* any nesting depth of the properties or relations.
C26_NoExcludedKeyInLeafPath ==
    Compared => \A leaf \in LeafDiffs : Segments(leaf.Path) \cap ExcludedProps = {}

\* the two entities differ in their titles and in nothing else
OnlyTitleDiffers(e1, e2) ==
    /\ e1.Title # e2.Title
    /\ [e1 EXCEPT !.Title = e2.Title] = e2

\* source {A, B, C} against target {A, B with another title, D}
TitleScenario ==
    /\ sourceEntities = <<Pool[1], Pool[2], Pool[4]>>
    /\ targetEntities = <<Pool[1], Pool[3], Pool[5]>>

\* C27: an entity on both sides whose only difference is its title is
\* classified changed with exactly one leaf diff: path title, old value the
\* source title, new value the target title; source {A, B, C} against target
\* {A, B with another title, D} gives identical = 1, changed = 1,
\* notMigrated = [C], orphaned = [D].
C27_TitleOnlyChange ==
    Compared =>
      /\ \A id \in Identifiers(sourceEntities) \cap Identifiers(targetEntities) :
           LET e1 == IndexEntities(sourceEntities)[id]
               e2 == IndexEntities(targetEntities)[id] IN
           OnlyTitleDiffers(e1, e2) =>
             \E k \in EntriesOf("changed") :
               /\ result.Changes[k].Identifier = id
               /\ \A j \in DOMAIN result.Changes :
                    result.Changes[j].Identifier = id => j = k
               /\ flattenDiffs(result.Changes[k].PropertyDiffs)
                    = {FlattenedDiff(<<"title">>, Str(e1.Title), Str(e2.Title))}
      /\ TitleScenario =>
           /\ result.Summary = [Identical |-> 1, NotMigrated |-> 1,
                                Changed |-> 1, Orphaned |-> 1]
           /\ ReportedAs("changed") = {"B"}
           /\ ReportedAs("notMigrated") = {"C"}
           /\ ReportedAs("orphaned") = {"D"}

C27_Witness ==
    /\ dpc = "compared"
    /\ TitleScenario
    /\ LeafDiffs = {FlattenedDiff(<<"title">>, Str("t"), Str("t2"))}

\* the two entities agree on title, relations and every top-level property
\* whose key is not an excluded one
DifferOnlyInExcluded(e1, e2) ==
    /\ e1.Title = e2.Title
    /\ e1.Relations = e2.Relations
    /\ \A k \in (DOMAIN e1.Properties \cup DOMAIN e2.Properties) \ ExcludedProps :
         /\ k \in DOMAIN e1.Properties
         /\ k \in DOMAIN e2.Properties
         /\ e1.Properties[k] = e2.Properties[k]

\* the identifiers on both sides that no change entry names
IdenticalIds ==
    (Identifiers(sourceEntities) \cap Identifiers(targetEntities)) \ ReportedAs("changed")

\* C30: two entities with the same identifier that differ only in the
\* excluded metadata fields of the entity or in top-level properties with
\* those names are classified identical, not changed.
C30_ExcludedMetadataIgnored ==
    Compared =>
      /\ result.Summary.Identical = Cardinality(IdenticalIds)
      /\ \A id \in Identifiers(sourceEntities) \cap Identifiers(targetEntities) :
           DifferOnlyInExcluded(IndexEntities(sourceEntities)[id],
                                IndexEntities(targetEntities)[id])
             => id \in IdenticalIds

C30_Witness ==
    /\ dpc = "compared"
    /\ Len(sourceEntities) = 1
    /\ Len(targetEntities) = 1
    /\ sourceEntities[1].UpdatedAt # targetEntities[1].UpdatedAt
    /\ sourceEntities[1].Properties = ("k" :> Str("x")) @@ ("createdAt" :> Str("y"))
    /\ targetEntities[1].Properties = "k" :> Str("x")
    /\ result.Summary.Identical = 1
    /\ result.Changes = <<>>

\* a key of exactly one of the two maps, with its value there
OneSided(m1, m2) == (DOMAIN m1 \ DOMAIN m2) \cup (DOMAIN m2 \ DOMAIN m1)

\* the leaf expected for key of exactly one of m1 and m2, under the path prefix
OneSidedLeaf(prefix, m1, m2, key) ==
    FlattenedDiff(Append(prefix, key), Lookup(m1, key), Lookup(m2, key))

\* C31: in the field-level diff of a changed entity every key present on one
\* side only, at the top level of the properties or inside a nested mapping,
\* yields a leaf diff at its path with the missing side null.
C31_OneSidedKeysAreLeaves ==
    Compared =>
      \A c \in EntriesOf("changed") :
        LET id == result.Changes[c].Identifier
            m1 == filterProperties(IndexEntities(sourceEntities)[id].Properties, ExcludedProps)
            m2 == filterProperties(IndexEntities(targetEntities)[id].Properties, ExcludedProps)
            leaves == flattenDiffs(result.Changes[c].PropertyDiffs) IN
        /\ \A key \in OneSided(m1, m2) :
             OneSidedLeaf(<<"properties">>, m1, m2, key) \in leaves
        /\ \A key \in DOMAIN m1 \cap DOMAIN m2 :
             (m1[key].t = "map" /\ m2[key].t = "map") =>
               \A inner \in OneSided(m1[key].v, m2[key].v) :
                 OneSidedLeaf(<<"properties", key>>, m1[key].v, m2[key].v, inner) \in leaves

\* C35: every entity classified as changed has at least one leaf in its
\* detailed diff.
C35_ChangedHasLeaf ==
    Compared =>
      \A c \in EntriesOf("changed") :
        flattenDiffs(result.Changes[c].PropertyDiffs) # {}

\* the identifiers that the entries of one type name in a result
ReportedIn(res, type) ==
    {res.Changes[k].Identifier : k \in {j \in DOMAIN res.Changes : res.Changes[j].Type = type}}

\* C36: swapping the two inputs mirrors the result: identical and changed
\* counts are the same, the notMigrated identifiers of one comparison are the
\* orphaned identifiers of the other.
C36_SwapMirrors ==
    Compared =>
      \A swapped \in Compare(targetEntities, sourceEntities) :
        /\ swapped.Summary.Identical = result.Summary.Identical
        /\ swapped.Summary.Changed = result.Summary.Changed
        /\ ReportedIn(swapped, "orphaned") = ReportedIn(result, "notMigrated")
        /\ ReportedIn(swapped, "notMigrated") = ReportedIn(result, "orphaned")

C36_Witness ==
    /\ dpc = "compared"
    /\ sourceEntities = <<Pool[2], Pool[4]>>
    /\ targetEntities = <<Pool[1], Pool[3], Pool[4], Pool[5]>>
    /\ result.Summary = [Identical |-> 1, NotMigrated |-> 0, Changed |-> 1, Orphaned |-> 2]

\* C38: in the result each identifier has at most one entry in Changes, and
\* the entries of type changed, notMigrated and orphaned are as many as
\* Summary.Changed, Summary.NotMigrated and Summary.Orphaned; identical
\* entities have no entry.
C38_ChangesMatchSummary ==
    Compared =>
      /\ \A a, b \in DOMAIN result.Changes :
           result.Changes[a].Identifier = result.Changes[b].Identifier => a = b
      /\ Cardinality(EntriesOf("changed")) = result.Summary.Changed
      /\ Cardinality(EntriesOf("notMigrated")) = result.Summary.NotMigrated
      /\ Cardinality(EntriesOf("orphaned")) = result.Summary.Orphaned
      /\ Len(result.Changes)
           = result.Summary.Changed + result.Summary.NotMigrated + result.Summary.Orphaned

C38_Witness ==
    /\ dpc = "compared"
    /\ result.Summary = [Identical |-> 1, NotMigrated |-> 2, Changed |-> 1, Orphaned |-> 0]
    /\ Len(result.Changes) = 3
    /\ ~UniqueIdentifiers(targetEntities)

\* the search requests of the current method, in the order sent
IsSearch(r) == r.kind = "search"
PagesSent == SelectSeq(http, IsSearch)

\* the entities of the responses to the first n search requests, in order
RECURSIVE Accumulated(_)
Accumulated(n) ==
    IF n = 0 THEN <<>>
    ELSE Accumulated(n - 1) \o ServePage(PagesSent[n].from).Entities

\* C32: the first request of a paginated search carries no cursor, every
\* later one the cursor of the response just before it, the entities of the
\* responses are appended in response order, and the loop stops at the first
\* response without a cursor.
C32_CursorChain ==
    LET n == Len(PagesSent) IN
    /\ n > 0 => PagesSent[1].from = NoCursor
    /\ \A k \in 2..n :
         /\ PagesSent[k - 1].res = "ok"
         /\ ServePage(PagesSent[k - 1].from).Next # NoCursor
         /\ PagesSent[k].from = ServePage(PagesSent[k - 1].from).Next
    /\ cpc = "paging" =>
         /\ allEntities = Accumulated(n)
         /\ n > 0 => ServePage(PagesSent[n].from).Next # NoCursor
    /\ SearchSucceeded =>
         /\ n > 0
         /\ ServePage(PagesSent[n].from).Next = NoCursor
         /\ ret.entities = Accumulated(n)

C32_Witness ==
    /\ SearchSucceeded
    /\ eager
    /\ stored = PageLimit + 1
    /\ Len(PagesSent) = 2
    /\ PagesSent[2].from = <<PageLimit>>
    /\ ret.entities = Range(1, PageLimit + 1)

\* C33: no authenticated catalog request is sent with a credential whose
\* expiry instant has passed, the page requests of one paginated search
\* included.
C33_NoExpiredCredentialSent ==
    \A k \in DOMAIN http :
      (http[k].kind # "auth" /\ http[k].bearer = token) => http[k].at <= tokenExpires

\* the step replaces the cached token or its expiry instant
CacheReplaced == token' # token \/ tokenExpires' # tokenExpires

\* C37: a failed exchange in getToken leaves the cached token and its expiry
\* instant as they were; the cache is replaced only by a successful exchange,
\* which replaces both fields with what the reply holds.
C37_FailedExchangeKeepsCache ==
    [][/\ (tokenCall'.called /\ tokenCall'.err # "nil") => ~CacheReplaced
       /\ CacheReplaced =>
            /\ tokenCall'.called
            /\ tokenCall'.exchanged
            /\ tokenCall'.err = "nil"
            /\ token' = DecodeAuthResponse(tokenCall'.reply.body).AccessToken
            /\ tokenExpires' = now + DecodeAuthResponse(tokenCall'.reply.body).ExpiresIn]_vars

C37_Witness ==
    /\ tokenCall.called
    /\ tokenCall.exchanged
    /\ tokenCall.err = "authentication failed"
    /\ tokenCall.cached = "t1"
    /\ token = "t1"
    /\ tokenExpires = ThreeMinutes + Minute
    /\ now = Minute

\* the identifiers that batch number b of a list carries
BatchOf(ids, b) == SubSeq(ids, (b - 1) * BatchSize + 1, Min(b * BatchSize, Len(ids)))

\* C34: bulk-patch requests are issued in a fixed order: the groups in the
\* order of the run's group list, the batches of a group in ascending index
\* order, and every request of a group before any request of a later group.
C34_PatchOrder ==
    /\ \A j, k \in PatchCalls :
         j < k => PositionOf(log[j].bp) <= PositionOf(log[k].bp)
    /\ \A k \in PatchCalls :
         \E m \in MigrateSearches :
           /\ m < k
           /\ log[m].bp = log[k].bp
           /\ \A n \in m + 1 .. k : log[n].call = "patch" /\ log[n].bp = log[k].bp
           /\ log[k].ids = BatchOf(log[m].ids, k - m)

C34_Witness ==
    /\ pc = "exited"
    /\ Len(blueprints) = 2
    /\ \E j, k \in PatchCalls :
         /\ BatchIndexOf(j) = 3
         /\ log[j].bp = blueprints[1]
         /\ log[k].bp = blueprints[2]
         /\ BatchIndexOf(k) = 2

====
